---------------------------- MODULE Spec2Model ----------------------------
(***************************************************************************)
(* The notebook glue-workflow/customer_churn_ml_pipeline_glue_workflow     *)
(* executed top to bottom ("Run All"), against the remote services it      *)
(* calls: AWS Glue (workflow, jobs, triggers, workflow run), S3, IAM and   *)
(* the SageMaker endpoint deployed by the second job.                      *)
(*                                                                         *)
(* A notebook session is a sequential program: pc[s] is the remote call    *)
(* (or local statement) it is about to execute.  Every remote call either  *)
(* returns or raises; an exception stops the run of the notebook at that   *)
(* cell.  The Glue service runs the workflow concurrently with the         *)
(* notebook, which only observes it through get_workflow_run.              *)
(***************************************************************************)
EXTENDS Naturals, Sequences, FiniteSets, TLC

VARIABLES
    pc,               \* per session: the statement about to be executed
    error,            \* per session: the statement that raised, or "none"
    called,           \* per session: the statements executed so far (history)
    id,               \* per session: uuid.uuid4().hex
    endpoint_name,    \* per session: f"gw-customer-churn-endpoint-{timestamp_suffix}"
    response,         \* per session: RunId returned by start_workflow_run
    workflow_status,  \* per session: last value returned by check_workflow_state
    local_file,       \* per session: ./data/test.csv exists
    workflows,        \* Glue: names of the workflows that exist
    jobs,             \* Glue: names of the jobs that exist
    triggers,         \* Glue: the triggers that exist (records)
    runs,             \* Glue: workflow runs, RunId -> record
    endpoints,        \* SageMaker: names of the endpoints that exist
    s3,               \* S3: keys that exist under s3://{bucket}/{prefix}/
    roles             \* IAM: names of the roles that exist

vars == <<pc, error, called, id, endpoint_name, response, workflow_status,
          local_file, workflows, jobs, triggers, runs, endpoints, s3, roles>>

nbvars == <<pc, error, called, id, endpoint_name, response, workflow_status,
            local_file>>

svcvars == <<workflows, jobs, triggers, runs, endpoints, s3, roles>>

-----------------------------------------------------------------------------
(* Sessions, and the inputs of the first code cell.                        *)

\* Two kernels running the notebook against the same account and region.
Sessions == {"nb1", "nb2"}

\* How many consecutive years, and minutes of the hour, datetime.now() is
\* taken from.
NumYears == 2

NumMinutes == 2

\* uuid.uuid4().hex in session s: 128 random bits, a value of the session's
\* own.
Uuid(s) == <<"uuid", s>>

\* Values datetime.now() can return: 14 July, 9 o'clock, of consecutive
\* years, at consecutive minutes.
Datetimes ==
    { [year |-> 2020 + y, month |-> 7, day |-> 14, hour |-> 9, minute |-> m - 1] :
        y \in 1..NumYears, m \in 1..NumMinutes }

\* str(month) + "-" + str(day) + "-" + str(hour) + "-" + str(minute): the
\* four numbers joined by "-", which determines exactly this 4-tuple.  The
\* year and the seconds are not part of it.
timestamp_suffix(t) == <<t.month, t.day, t.hour, t.minute>>

EndpointNameOf(t) == <<"gw-customer-churn-endpoint", timestamp_suffix(t)>>

glue_role_name == "AWS-Glue-S3-SageMaker-Access"

glue_workflow_name(s) == <<"CustomerChurnMLWorkflow", id[s]>>

data_processing_job_name(s) == <<"DataProcessingJob", id[s]>>

model_training_deployment_job_name(s) == <<"ModelTrainingDeploymentJob", id[s]>>

data_processing_trigger_name(s) == <<"TriggerDataProcessingJob", id[s]>>

model_train_deploy_trigger_name(s) == <<"TriggerModelTrainingDeploymentJob", id[s]>>

\* S3 keys below s3://{bucket}/{prefix}/ : the same for every session.
RawDataKey == "input/churn_processed.csv"

ScriptKeyA == "glue/scripts/glue_preprocessing.py"

ScriptKeyB == "glue/scripts/model_training_deployment.py"

TestDataKey == "processed/test/test.csv"

\* A job definition that allows one retry.
MaxRetriesOne == 0 + 1

\* MaxRetries of both create_job calls.
MaxRetries == 0

-----------------------------------------------------------------------------
(* The notebook's statements in cell order.                                *)

\* The workflow run started before the conditional trigger is created.
CellsStartBeforeTrigger ==
    << "setup", "create_glue_role", "upload_raw_data", "create_workflow",
       "upload_script_A", "create_job_A", "upload_script_B", "create_job_B",
       "create_trigger_A", "start_workflow_run", "create_trigger_B",
       "get_workflow_run", "sleep", "download", "read_csv", "invoke_endpoint",
       "delete_job_A", "delete_job_B", "delete_trigger_A", "delete_trigger_B",
       "delete_workflow", "delete_endpoint", "done" >>

\* The conditional trigger created before the job it starts.
CellsTriggerBeforeJob ==
    << "setup", "create_glue_role", "upload_raw_data", "create_workflow",
       "upload_script_A", "create_job_A", "create_trigger_A", "create_trigger_B",
       "upload_script_B", "create_job_B", "start_workflow_run",
       "get_workflow_run", "sleep", "download", "read_csv", "invoke_endpoint",
       "delete_job_A", "delete_job_B", "delete_trigger_A", "delete_trigger_B",
       "delete_workflow", "delete_endpoint", "done" >>

Cells ==
    << "setup", "create_glue_role", "upload_raw_data", "create_workflow",
       "upload_script_A", "create_job_A", "upload_script_B", "create_job_B",
       "create_trigger_A", "create_trigger_B", "start_workflow_run",
       "get_workflow_run", "sleep", "download", "read_csv", "invoke_endpoint",
       "delete_job_A", "delete_job_B", "delete_trigger_A", "delete_trigger_B",
       "delete_workflow", "delete_endpoint", "done" >>

CellIndex(c) == CHOOSE i \in 1..Len(Cells) : Cells[i] = c

Succ(c) == Cells[CellIndex(c) + 1]

\* Statements that are calls to a remote service.
RemoteCalls ==
    { "create_glue_role", "upload_raw_data", "create_workflow",
      "upload_script_A", "create_job_A", "upload_script_B", "create_job_B",
      "create_trigger_A", "create_trigger_B", "start_workflow_run",
      "get_workflow_run", "download", "invoke_endpoint",
      "delete_job_A", "delete_job_B", "delete_trigger_A", "delete_trigger_B",
      "delete_workflow", "delete_endpoint" }

\* A loop that does not break on ERROR.
BreakStatusesNoError == {"COMPLETED", "STOPPED"}

\* if workflow_status in ['COMPLETED', 'STOPPED', 'ERROR']: break
BreakStatuses == {"COMPLETED", "STOPPED", "ERROR"}

\* The session is about to execute statement c.
At(s, c) == pc[s] = c /\ error[s] = "none"

\* Statement c returned: control moves to `next`.
Goto(s, c, next) ==
    /\ pc' = [pc EXCEPT ![s] = next]
    /\ called' = [called EXCEPT ![s] = @ \cup {c}]
    /\ UNCHANGED error

Return(s, c) == Goto(s, c, Succ(c))

\* The exception swallowed: the run goes on with the next statement.
RaiseAndContinue(s) ==
    /\ error' = [error EXCEPT ![s] = pc[s]]
    /\ called' = [called EXCEPT ![s] = @ \cup {pc[s]}]
    /\ pc' = [pc EXCEPT ![s] = Succ(pc[s])]

\* Statement pc[s] raised: the exception is not caught, the run of the
\* notebook stops in that cell.
Raise(s) ==
    /\ error' = [error EXCEPT ![s] = pc[s]]
    /\ called' = [called EXCEPT ![s] = @ \cup {pc[s]}]
    /\ UNCHANGED pc

-----------------------------------------------------------------------------
(* The triggers the notebook creates.                                      *)

DataProcessingTrigger(s) ==
    [ Name         |-> data_processing_trigger_name(s),
      Type         |-> "ON_DEMAND",
      WorkflowName |-> glue_workflow_name(s),
      Predicate    |-> {},
      JobName      |-> data_processing_job_name(s),
      EndpointArg  |-> {} ]

\* The second trigger without its condition on the first job.
ModelTrainDeployTriggerUnconditional(s) ==
    [ Name         |-> model_train_deploy_trigger_name(s),
      Type         |-> "ON_DEMAND",
      WorkflowName |-> glue_workflow_name(s),
      Predicate    |-> {},
      JobName      |-> model_training_deployment_job_name(s),
      EndpointArg  |-> {endpoint_name[s]} ]

ModelTrainDeployTrigger(s) ==
    [ Name         |-> model_train_deploy_trigger_name(s),
      Type         |-> "CONDITIONAL",
      WorkflowName |-> glue_workflow_name(s),
      Predicate    |-> { [ LogicalOperator |-> "EQUALS",
                           JobName         |-> data_processing_job_name(s),
                           State           |-> "SUCCEEDED" ] },
      JobName      |-> model_training_deployment_job_name(s),
      EndpointArg  |-> {endpoint_name[s]} ]

-----------------------------------------------------------------------------
(* Glue workflow runs.                                                     *)

RunIdOf(w) == <<"wr", w>>

JobState(run, j) ==
    IF j \in DOMAIN run.JobRuns THEN run.JobRuns[j].State ELSE "NOT_STARTED"

\* An ON_DEMAND trigger of a workflow is its start trigger: it fires when the
\* run starts.  A CONDITIONAL trigger fires when all its conditions hold.
TriggerReady(tr, run) ==
    IF tr.Type = "ON_DEMAND"
    THEN TRUE
    ELSE \A c \in tr.Predicate :
            c.LogicalOperator = "EQUALS" /\ JobState(run, c.JobName) = c.State

CanFire(rid, tr) ==
    /\ rid \in DOMAIN runs
    /\ runs[rid].Status = "RUNNING"
    /\ tr \in triggers
    /\ tr.WorkflowName = runs[rid].WorkflowName
    /\ tr.JobName \in jobs
    /\ JobState(runs[rid], tr.JobName) = "NOT_STARTED"
    /\ TriggerReady(tr, runs[rid])

-----------------------------------------------------------------------------
(* The notebook, statement by statement.                                   *)

\* First code cell: id = uuid.uuid4().hex, current_time = datetime.now().
Setup(s) ==
    /\ At(s, "setup")
    /\ id' = [id EXCEPT ![s] = Uuid(s)]
    /\ \E t \in Datetimes :
          endpoint_name' = [endpoint_name EXCEPT ![s] = EndpointNameOf(t)]
    /\ Return(s, "setup")
    /\ UNCHANGED <<response, workflow_status, local_file>>
    /\ UNCHANGED svcvars

CreateGlueRole(s) ==
    /\ At(s, "create_glue_role")
    /\ roles' = roles \cup {glue_role_name}
    /\ Return(s, "create_glue_role")
    /\ UNCHANGED <<id, endpoint_name, response, workflow_status, local_file>>
    /\ UNCHANGED <<workflows, jobs, triggers, runs, endpoints, s3>>

\* S3Uploader.upload of the raw data and of the two job scripts.
Upload(s, c, key) ==
    /\ At(s, c)
    /\ s3' = s3 \cup {key}
    /\ Return(s, c)
    /\ UNCHANGED <<id, endpoint_name, response, workflow_status, local_file>>
    /\ UNCHANGED <<workflows, jobs, triggers, runs, endpoints, roles>>

UploadRawData(s) == Upload(s, "upload_raw_data", RawDataKey)

UploadScriptA(s) == Upload(s, "upload_script_A", ScriptKeyA)

UploadScriptB(s) == Upload(s, "upload_script_B", ScriptKeyB)

CreateWorkflow(s) ==
    /\ At(s, "create_workflow")
    /\ workflows' = workflows \cup {glue_workflow_name(s)}
    /\ Return(s, "create_workflow")
    /\ UNCHANGED <<id, endpoint_name, response, workflow_status, local_file>>
    /\ UNCHANGED <<jobs, triggers, runs, endpoints, s3, roles>>

CreateJob(s, c, name) ==
    /\ At(s, c)
    /\ jobs' = jobs \cup {name}
    /\ Return(s, c)
    /\ UNCHANGED <<id, endpoint_name, response, workflow_status, local_file>>
    /\ UNCHANGED <<workflows, triggers, runs, endpoints, s3, roles>>

CreateJobA(s) == CreateJob(s, "create_job_A", data_processing_job_name(s))

CreateJobB(s) == CreateJob(s, "create_job_B", model_training_deployment_job_name(s))

CreateTrigger(s, c, tr) ==
    /\ At(s, c)
    /\ triggers' = triggers \cup {tr}
    /\ Return(s, c)
    /\ UNCHANGED <<id, endpoint_name, response, workflow_status, local_file>>
    /\ UNCHANGED <<workflows, jobs, runs, endpoints, s3, roles>>

CreateTriggerA(s) == CreateTrigger(s, "create_trigger_A", DataProcessingTrigger(s))

CreateTriggerB(s) == CreateTrigger(s, "create_trigger_B", ModelTrainDeployTrigger(s))

\* glue_client.start_workflow_run(Name=glue_workflow_name): a run of a
\* workflow that exists starts, no job of it started yet.
StartWorkflowRun(s) ==
    /\ At(s, "start_workflow_run")
    /\ glue_workflow_name(s) \in workflows
    /\ LET w == glue_workflow_name(s) IN
          /\ runs' = (RunIdOf(w) :> [ WorkflowName |-> w,
                                      Status       |-> "RUNNING",
                                      JobRuns      |-> <<>> ]) @@ runs
          /\ response' = [response EXCEPT ![s] = RunIdOf(w)]
    /\ Return(s, "start_workflow_run")
    /\ UNCHANGED <<id, endpoint_name, workflow_status, local_file>>
    /\ UNCHANGED <<workflows, jobs, triggers, endpoints, s3, roles>>

\* check_workflow_state(glue_workflow_name, response['RunId'])
check_workflow_state(s) == runs[response[s]].Status

\* One iteration of `while True` up to the break or the sleep.
PollWorkflowState(s) ==
    /\ At(s, "get_workflow_run")
    /\ response[s] \in DOMAIN runs
    /\ workflow_status' = [workflow_status EXCEPT ![s] = check_workflow_state(s)]
    /\ IF check_workflow_state(s) \in BreakStatuses
       THEN Goto(s, "get_workflow_run", Succ("sleep"))
       ELSE Goto(s, "get_workflow_run", "sleep")
    /\ UNCHANGED <<id, endpoint_name, response, local_file>>
    /\ UNCHANGED svcvars

\* time.sleep(30), then the next iteration.
Sleep(s) ==
    /\ At(s, "sleep")
    /\ pc' = [pc EXCEPT ![s] = "get_workflow_run"]
    /\ UNCHANGED <<error, called>>
    /\ UNCHANGED <<id, endpoint_name, response, workflow_status, local_file>>
    /\ UNCHANGED svcvars

\* S3Downloader.download(f"{test_data}{test_data_file}", 'data'): downloads
\* the objects below the key; none is no error.
Download(s) ==
    /\ At(s, "download")
    /\ local_file' = [local_file EXCEPT ![s] = @ \/ TestDataKey \in s3]
    /\ Return(s, "download")
    /\ UNCHANGED <<id, endpoint_name, response, workflow_status>>
    /\ UNCHANGED svcvars

\* df = pd.read_csv(f"./data/{test_data_file}", header=None)
ReadCsv(s) ==
    /\ At(s, "read_csv")
    /\ local_file[s]
    /\ Return(s, "read_csv")
    /\ UNCHANGED <<id, endpoint_name, response, workflow_status, local_file>>
    /\ UNCHANGED svcvars

\* runtime_client.invoke_endpoint(EndpointName=endpoint_name, ...)
InvokeEndpoint(s) ==
    /\ At(s, "invoke_endpoint")
    /\ endpoint_name[s] \in endpoints
    /\ Return(s, "invoke_endpoint")
    /\ UNCHANGED <<id, endpoint_name, response, workflow_status, local_file>>
    /\ UNCHANGED svcvars

DeleteJob(s, c, name) ==
    /\ At(s, c)
    /\ jobs' = jobs \ {name}
    /\ Return(s, c)
    /\ UNCHANGED <<id, endpoint_name, response, workflow_status, local_file>>
    /\ UNCHANGED <<workflows, triggers, runs, endpoints, s3, roles>>

DeleteJobA(s) == DeleteJob(s, "delete_job_A", data_processing_job_name(s))

DeleteJobB(s) == DeleteJob(s, "delete_job_B", model_training_deployment_job_name(s))

DeleteTrigger(s, c, name) ==
    /\ At(s, c)
    /\ triggers' = {tr \in triggers : tr.Name # name}
    /\ Return(s, c)
    /\ UNCHANGED <<id, endpoint_name, response, workflow_status, local_file>>
    /\ UNCHANGED <<workflows, jobs, runs, endpoints, s3, roles>>

DeleteTriggerA(s) == DeleteTrigger(s, "delete_trigger_A", data_processing_trigger_name(s))

DeleteTriggerB(s) == DeleteTrigger(s, "delete_trigger_B", model_train_deploy_trigger_name(s))

\* A cleanup cell that leaves the workflow.
DeleteWorkflowSkipped(s) ==
    /\ At(s, "delete_workflow")
    /\ Return(s, "delete_workflow")
    /\ UNCHANGED <<id, endpoint_name, response, workflow_status, local_file>>
    /\ UNCHANGED svcvars

DeleteWorkflow(s) ==
    /\ At(s, "delete_workflow")
    /\ workflows' = workflows \ {glue_workflow_name(s)}
    /\ Return(s, "delete_workflow")
    /\ UNCHANGED <<id, endpoint_name, response, workflow_status, local_file>>
    /\ UNCHANGED <<jobs, triggers, runs, endpoints, s3, roles>>

\* sagemaker_client.delete_endpoint(EndpointName=endpoint_name)
DeleteEndpoint(s) ==
    /\ At(s, "delete_endpoint")
    /\ endpoint_name[s] \in endpoints
    /\ endpoints' = endpoints \ {endpoint_name[s]}
    /\ Return(s, "delete_endpoint")
    /\ UNCHANGED <<id, endpoint_name, response, workflow_status, local_file>>
    /\ UNCHANGED <<workflows, jobs, triggers, runs, s3, roles>>

\* Any remote call may raise (botocore ClientError, connection errors);
\* read_csv raises FileNotFoundError when the download brought no file.
\* No statement of the notebook is inside a try block.
CallRaises(s) ==
    /\ error[s] = "none"
    /\ pc[s] \in RemoteCalls \/ (pc[s] = "read_csv" /\ ~local_file[s])
    /\ Raise(s)
    /\ UNCHANGED <<id, endpoint_name, response, workflow_status, local_file>>
    /\ UNCHANGED svcvars

-----------------------------------------------------------------------------
(* The services, running the workflow.                                     *)

\* What a job that succeeded leaves behind: the preprocessing job writes the
\* processed data sets, the training/deployment job deploys the endpoint
\* whose name it was given ('--endpoint_name').
JobOutputS3(j) == IF j[1] = "DataProcessingJob" THEN {TestDataKey} ELSE {}

JobOutputEndpoints(j, jobrun) ==
    IF j[1] = "ModelTrainingDeploymentJob" THEN jobrun.EndpointArg ELSE {}

\* A trigger of the run's workflow fires and starts its job.
FireTrigger(rid, tr) ==
    /\ CanFire(rid, tr)
    /\ runs' = [runs EXCEPT ![rid].JobRuns =
                   (tr.JobName :> [ State       |-> "RUNNING",
                                    Attempts    |-> 1,
                                    EndpointArg |-> tr.EndpointArg ]) @@ @]
    /\ UNCHANGED <<workflows, jobs, triggers, endpoints, s3, roles>>
    /\ UNCHANGED nbvars

\* A job run ends.  A run that did not succeed is started again while the
\* job's MaxRetries allows.
JobFinish(rid, j, outcome) ==
    /\ rid \in DOMAIN runs
    /\ j \in DOMAIN runs[rid].JobRuns
    /\ runs[rid].JobRuns[j].State = "RUNNING"
    /\ LET jr    == runs[rid].JobRuns[j]
           retry == outcome # "SUCCEEDED" /\ jr.Attempts <= MaxRetries
       IN  /\ runs' = [runs EXCEPT ![rid].JobRuns[j] =
                          IF retry
                          THEN [jr EXCEPT !.Attempts = @ + 1]
                          ELSE [jr EXCEPT !.State = outcome]]
           /\ s3' = IF outcome = "SUCCEEDED" THEN s3 \cup JobOutputS3(j) ELSE s3
           /\ endpoints' = IF outcome = "SUCCEEDED"
                           THEN endpoints \cup JobOutputEndpoints(j, jr)
                           ELSE endpoints
    /\ UNCHANGED <<workflows, jobs, triggers, roles>>
    /\ UNCHANGED nbvars

\* Every node of the run is done and no trigger can fire any more.
RunComplete(rid) ==
    /\ rid \in DOMAIN runs
    /\ runs[rid].Status = "RUNNING"
    /\ \A j \in DOMAIN runs[rid].JobRuns : runs[rid].JobRuns[j].State # "RUNNING"
    /\ \A tr \in triggers : ~CanFire(rid, tr)
    /\ runs' = [runs EXCEPT ![rid].Status = "COMPLETED"]
    /\ UNCHANGED <<workflows, jobs, triggers, endpoints, s3, roles>>
    /\ UNCHANGED nbvars

\* The service could not start the run (WorkflowRun.ErrorMessage: "any error
\* that may have occurred in starting the workflow run"): no node started.
RunError(rid) ==
    /\ rid \in DOMAIN runs
    /\ runs[rid].Status = "RUNNING"
    /\ DOMAIN runs[rid].JobRuns = {}
    /\ runs' = [runs EXCEPT ![rid].Status = "ERROR"]
    /\ UNCHANGED <<workflows, jobs, triggers, endpoints, s3, roles>>
    /\ UNCHANGED nbvars

\* Somebody (console, CLI) stops the run.
StopRun(rid) ==
    /\ rid \in DOMAIN runs
    /\ runs[rid].Status = "RUNNING"
    /\ runs' = [runs EXCEPT ![rid].Status = "STOPPING"]
    /\ UNCHANGED <<workflows, jobs, triggers, endpoints, s3, roles>>
    /\ UNCHANGED nbvars

RunStopped(rid) ==
    /\ rid \in DOMAIN runs
    /\ runs[rid].Status = "STOPPING"
    /\ runs' = [runs EXCEPT ![rid] =
                  [ @ EXCEPT !.Status = "STOPPED",
                             !.JobRuns = [ j \in DOMAIN @ |->
                                 IF @[j].State = "RUNNING"
                                 THEN [@[j] EXCEPT !.State = "STOPPED"]
                                 ELSE @[j] ] ]]
    /\ UNCHANGED <<workflows, jobs, triggers, endpoints, s3, roles>>
    /\ UNCHANGED nbvars

-----------------------------------------------------------------------------
(* Specifications.                                                         *)

InitService ==
    /\ workflows = {}
    /\ jobs = {}
    /\ triggers = {}
    /\ runs = <<>>
    /\ endpoints = {}
    /\ s3 = {}
    /\ roles = {}

InitNotebook(started) ==
    /\ pc = [s \in Sessions |-> IF s \in started THEN "setup" ELSE "off"]
    /\ error = [s \in Sessions |-> "none"]
    /\ called = [s \in Sessions |-> {}]
    /\ id = [s \in Sessions |-> <<>>]
    /\ endpoint_name = [s \in Sessions |-> <<>>]
    /\ response = [s \in Sessions |-> <<>>]
    /\ workflow_status = [s \in Sessions |-> "none"]
    /\ local_file = [s \in Sessions |-> FALSE]

\* One session runs the notebook.
Init == InitNotebook({"nb1"}) /\ InitService

\* Two sessions run the notebook, interleaved.
InitTwo == InitNotebook(Sessions) /\ InitService

RunIds == DOMAIN runs

JobOutcomes == {"SUCCEEDED", "FAILED", "TIMEOUT"}

NotebookStep(s) ==
    \/ Setup(s)
    \/ CreateGlueRole(s)
    \/ UploadRawData(s)
    \/ CreateWorkflow(s)
    \/ UploadScriptA(s)
    \/ CreateJobA(s)
    \/ UploadScriptB(s)
    \/ CreateJobB(s)
    \/ CreateTriggerA(s)
    \/ CreateTriggerB(s)
    \/ StartWorkflowRun(s)
    \/ PollWorkflowState(s)
    \/ Sleep(s)
    \/ Download(s)
    \/ ReadCsv(s)
    \/ InvokeEndpoint(s)
    \/ DeleteJobA(s)
    \/ DeleteJobB(s)
    \/ DeleteTriggerA(s)
    \/ DeleteTriggerB(s)
    \/ DeleteWorkflow(s)
    \/ DeleteEndpoint(s)
    \/ CallRaises(s)

ServiceStep ==
    \/ \E rid \in RunIds, tr \in triggers : FireTrigger(rid, tr)
    \/ \E rid \in RunIds : \E j \in DOMAIN runs[rid].JobRuns, o \in JobOutcomes :
          JobFinish(rid, j, o)
    \/ \E rid \in RunIds : RunComplete(rid)
    \/ \E rid \in RunIds : RunError(rid)
    \/ \E rid \in RunIds : StopRun(rid)
    \/ \E rid \in RunIds : RunStopped(rid)

Next == (\E s \in Sessions : NotebookStep(s)) \/ ServiceStep

Spec == Init /\ [][Next]_vars

SpecTwo == InitTwo /\ [][Next]_vars

\* The polling loop is not starved and the service makes progress with the
\* run: triggers fire, jobs end, a stop request completes, a finished run is
\* reported finished.
ServiceProgress ==
    \/ \E rid \in RunIds, tr \in triggers : FireTrigger(rid, tr)
    \/ \E rid \in RunIds : \E j \in DOMAIN runs[rid].JobRuns, o \in JobOutcomes :
          JobFinish(rid, j, o)
    \/ \E rid \in RunIds : RunComplete(rid)
    \/ \E rid \in RunIds : RunStopped(rid)

FairSpec ==
    /\ Init
    /\ [][Next]_vars
    /\ WF_vars(\E s \in Sessions : PollWorkflowState(s))
    /\ WF_vars(\E s \in Sessions : Sleep(s))
    /\ WF_vars(ServiceProgress)

-----------------------------------------------------------------------------
(* Properties.                                                             *)

InLoop(s) == pc[s] \in {"get_workflow_run", "sleep"}

PastLoop(s) ==
    pc[s] \in { "download", "read_csv", "invoke_endpoint", "delete_job_A",
                "delete_job_B", "delete_trigger_A", "delete_trigger_B",
                "delete_workflow", "delete_endpoint", "done" }

CreateCalls ==
    { "create_workflow", "create_job_A", "create_job_B",
      "create_trigger_A", "create_trigger_B" }

DeleteCalls ==
    { "delete_job_A", "delete_job_B", "delete_trigger_A", "delete_trigger_B",
      "delete_workflow", "delete_endpoint" }

JobAOf(j) == <<"DataProcessingJob", j[2]>>

\* C1: in every workflow run, Job B (ModelTrainingDeploymentJob) has been
\* started only if Job A (DataProcessingJob) of the same run is SUCCEEDED; a
\* Job A that is not started, running, FAILED, TIMEOUT or STOPPED never has a
\* started Job B beside it.
JobBOnlyAfterJobASucceeded ==
    \A rid \in DOMAIN runs :
        \A j \in DOMAIN runs[rid].JobRuns :
            j[1] = "ModelTrainingDeploymentJob"
                => JobState(runs[rid], JobAOf(j)) = "SUCCEEDED"

JobBStarted ==
    \E rid \in DOMAIN runs :
        \E j \in DOMAIN runs[rid].JobRuns :
            /\ j[1] = "ModelTrainingDeploymentJob"
            /\ runs[rid].JobRuns[j].State = "RUNNING"

\* C2: a poll that returns leaves the loop exactly when the status returned
\* by check_workflow_state is COMPLETED, STOPPED or ERROR; for any other
\* status the notebook sleeps, and after the sleep it polls again.
PollExitsExactlyOnTerminal ==
    [][\A s \in Sessions :
          /\ (At(s, "get_workflow_run") /\ pc'[s] # pc[s]) =>
                /\ workflow_status'[s] = runs[response[s]].Status
                /\ IF workflow_status'[s] \in {"COMPLETED", "STOPPED", "ERROR"}
                   THEN pc'[s] = "download"
                   ELSE pc'[s] = "sleep"
          /\ (pc[s] = "sleep" /\ pc'[s] # pc[s]) => pc'[s] = "get_workflow_run"
      ]_vars

LoopExitedOnStopped ==
    pc["nb1"] = "download" /\ workflow_status["nb1"] = "STOPPED"

\* C3: the loop has no bound of its own.  When the service makes progress
\* with the run, a notebook in the loop eventually leaves it (or the poll
\* raises); and the notebook is past the loop only when the run it polls has
\* reported COMPLETED, STOPPED or ERROR.
LoopTerminatesIffRunTerminal ==
    /\ \A s \in Sessions :
          InLoop(s) ~> (pc[s] = "download" \/ error[s] # "none")
    /\ [](\A s \in Sessions :
            PastLoop(s) =>
                /\ response[s] \in DOMAIN runs
                /\ runs[response[s]].Status \in {"COMPLETED", "STOPPED", "ERROR"})

LoopExitedOnError ==
    pc["nb1"] = "download" /\ workflow_status["nb1"] = "ERROR"

\* C4: the phases happen in order: workflow, jobs and triggers are created
\* before start_workflow_run is called; polling starts only after
\* start_workflow_run returned a run id; invoke_endpoint is called only after
\* the loop was left; every delete call comes after invoke_endpoint returned.
PhasesInOrder ==
    \A s \in Sessions :
        /\ "start_workflow_run" \in called[s] =>
              /\ CreateCalls \subseteq called[s]
              /\ error[s] \notin CreateCalls
        /\ "get_workflow_run" \in called[s] =>
              /\ "start_workflow_run" \in called[s]
              /\ response[s] \in DOMAIN runs
        /\ "invoke_endpoint" \in called[s] =>
              /\ "get_workflow_run" \in called[s]
              /\ ~InLoop(s)
              /\ workflow_status[s] \in {"COMPLETED", "STOPPED", "ERROR"}
        /\ called[s] \cap DeleteCalls # {} =>
              /\ "invoke_endpoint" \in called[s]
              /\ error[s] # "invoke_endpoint"

AllPhasesRun ==
    "delete_endpoint" \in called["nb1"] /\ error["nb1"] = "none"

\* C5: the evaluation cells (download of the test data, invoke_endpoint) are
\* executed only when the workflow run that was polled is COMPLETED.
EvaluationOnlyWhenCompleted ==
    \A s \in Sessions :
        called[s] \cap {"download", "invoke_endpoint"} # {}
            => workflow_status[s] = "COMPLETED"

\* What of the session's Glue resources exists.
OwnGlueResources(s) ==
    [ workflow |-> glue_workflow_name(s) \in workflows,
      jobA     |-> data_processing_job_name(s) \in jobs,
      jobB     |-> model_training_deployment_job_name(s) \in jobs,
      triggerA |-> \E tr \in triggers : tr.Name = data_processing_trigger_name(s),
      triggerB |-> \E tr \in triggers : tr.Name = model_train_deploy_trigger_name(s) ]

NoGlueResources ==
    [ workflow |-> FALSE, jobA |-> FALSE, jobB |-> FALSE,
      triggerA |-> FALSE, triggerB |-> FALSE ]

Uploads == {RawDataKey, ScriptKeyA, ScriptKeyB}

\* C6 as stated: after the teardown nothing that the run created or uploaded
\* exists any more.
TeardownLeavesNothing ==
    \A s \in Sessions :
        pc[s] = "done" =>
            /\ OwnGlueResources(s) = NoGlueResources
            /\ endpoint_name[s] \notin endpoints
            /\ s3 \cap Uploads = {}

\* C6 amended: after the teardown the two jobs, the two triggers and the
\* workflow do not exist, and the endpoint does not exist when delete_endpoint
\* returns; the raw data and the two job scripts uploaded to S3 are still
\* there.
TeardownRemovesGlueAndEndpoint ==
    /\ [](\A s \in Sessions :
            pc[s] = "done" =>
                /\ OwnGlueResources(s) = NoGlueResources
                /\ Uploads \subseteq s3)
    /\ [][\A s \in Sessions :
            (pc[s] = "delete_endpoint" /\ pc'[s] = "done")
                => endpoint_name[s] \notin endpoints']_vars

TeardownDone ==
    /\ pc["nb1"] = "done"
    /\ endpoint_name["nb1"] \notin endpoints
    /\ ScriptKeyA \in s3

\* C7: within a workflow run every job is attempted at most once, and a job
\* run that ended FAILED, TIMEOUT or STOPPED stays as it ended.
ZeroRetries ==
    /\ [](\A rid \in DOMAIN runs :
            \A j \in DOMAIN runs[rid].JobRuns :
                runs[rid].JobRuns[j].Attempts <= 1)
    /\ [][\A rid \in DOMAIN runs :
            \A j \in DOMAIN runs[rid].JobRuns :
                runs[rid].JobRuns[j].State \in {"FAILED", "TIMEOUT", "STOPPED"}
                    => runs'[rid].JobRuns[j] = runs[rid].JobRuns[j]]_vars

JobFailedOnce ==
    \E rid \in DOMAIN runs :
        /\ runs[rid].Status = "COMPLETED"
        /\ \E j \in DOMAIN runs[rid].JobRuns :
              /\ runs[rid].JobRuns[j].State = "FAILED"
              /\ runs[rid].JobRuns[j].Attempts = 1

\* The statement a precedes the statement c in the notebook.
Before(a, c) == CellIndex(a) < CellIndex(c)

\* The resource made by `create` and removed by `delete`, after every
\* statement before c returned and c did not.
LeftBy(create, delete, c) == Before(create, c) /\ ~Before(delete, c)

GlueResourcesLeftBefore(c) ==
    [ workflow |-> LeftBy("create_workflow", "delete_workflow", c),
      jobA     |-> LeftBy("create_job_A", "delete_job_A", c),
      jobB     |-> LeftBy("create_job_B", "delete_job_B", c),
      triggerA |-> LeftBy("create_trigger_A", "delete_trigger_A", c),
      triggerB |-> LeftBy("create_trigger_B", "delete_trigger_B", c) ]

\* C8: a statement that raised ends the run of the notebook there: the
\* session stays at that statement, calls nothing any more (no retry, no
\* later statement, no compensating delete), and its Glue resources are
\* exactly what the calls that returned before it left.
NoRetryNoRecovery ==
    /\ [](\A s \in Sessions :
            error[s] # "none" =>
                /\ pc[s] = error[s]
                /\ called[s] = {c \in RemoteCalls \cup {"setup", "read_csv"} :
                                    ~Before(error[s], c)}
                /\ OwnGlueResources(s) = GlueResourcesLeftBefore(error[s]))
    /\ [][\A s \in Sessions :
            error[s] # "none" =>
                /\ pc'[s] = pc[s]
                /\ error'[s] = error[s]
                /\ called'[s] = called[s]]_vars

DeleteJobRaised ==
    /\ error["nb1"] = "delete_job_A"
    /\ OwnGlueResources("nb1") =
          [ workflow |-> TRUE, jobA |-> TRUE, jobB |-> TRUE,
            triggerA |-> TRUE, triggerB |-> TRUE ]
    /\ endpoint_name["nb1"] \in endpoints

TriggerRefersToJobs(tr) ==
    /\ tr.JobName \in jobs
    /\ \A c \in tr.Predicate : c.JobName \in jobs

\* C9 as stated: every trigger that exists refers to a workflow that exists
\* and to jobs that exist.
ReferentialIntegrity ==
    \A tr \in triggers :
        tr.WorkflowName \in workflows /\ TriggerRefersToJobs(tr)

\* C9 amended: every trigger that exists refers to a workflow that exists,
\* and, as long as its session has not called delete_job, to jobs that exist.
ReferentialIntegrityUntilDeleteJob ==
    \A tr \in triggers :
        /\ tr.WorkflowName \in workflows
        /\ \A s \in Sessions :
              (tr.WorkflowName = glue_workflow_name(s)
                 /\ "delete_job_A" \notin called[s])
                    => TriggerRefersToJobs(tr)

BothTriggersCreated ==
    /\ pc["nb1"] = "get_workflow_run"
    /\ DataProcessingTrigger("nb1") \in triggers
    /\ ModelTrainDeployTrigger("nb1") \in triggers
    /\ \A tr \in triggers : TriggerRefersToJobs(tr)

ResourceNames(s) ==
    { glue_workflow_name(s), data_processing_job_name(s),
      model_training_deployment_job_name(s), data_processing_trigger_name(s),
      model_train_deploy_trigger_name(s), endpoint_name[s] }

=============================================================================
